---- MODULE Spec2Model ----
(***************************************************************************)
(* Model of src/src/lib/phonepe.ts: the PhonePe gateway client             *)
(* (initiatePhonePePayment, checkPaymentStatus with their retry loops),    *)
(* the signer (createRequestHash, verifyWebhookSignature) and the          *)
(* transaction store adapter (createPaymentTransaction,                    *)
(* updatePaymentTransaction).                                              *)
(*                                                                         *)
(* JavaScript strings are TLA+ strings, + is \o.  The empty string stands  *)
(* for every falsy string value (empty or missing).  `undefined` and       *)
(* `null` are the records Undefined and Null.                              *)
(***************************************************************************)
EXTENDS Integers, Sequences, FiniteSets, TLC

VARIABLES
    PHONEPE_MERCHANT_ID,  \* module constant, line 10
    PHONEPE_SALT_KEY,     \* module constant, line 11
    PHONEPE_SALT_INDEX,   \* module constant, line 12
    scenario,             \* what the callers and the network do in this run
    call,                 \* one activation record per gateway call in progress
    signer,               \* activation record of the signer functions under test
    store                 \* the external store and the adapter's last return value

vars == <<PHONEPE_MERCHANT_ID, PHONEPE_SALT_KEY, PHONEPE_SALT_INDEX, scenario, call, signer,
          store>>

config == <<PHONEPE_MERCHANT_ID, PHONEPE_SALT_KEY, PHONEPE_SALT_INDEX>>

----------------------------------------------------------------------------
(* Bounds *)

\* largest `retries` argument passed to a gateway call
MaxRetries == 3

\* longest webhook body / payload, in characters
MaxLen == 2

\* largest `retries` argument when two gateway calls run concurrently
ConcMaxRetries == 1

----------------------------------------------------------------------------
(* JavaScript values *)

Undefined == [undefined |-> TRUE]

Null == [null |-> TRUE]

\* a || b on strings: the empty string is falsy
OrElse(a, b) == IF a = "" THEN b ELSE a

\* Math.pow(2, n) for the non-negative integers the loop passes
RECURSIVE Pow2(_)
Pow2(n) == IF n <= 0 THEN 1 ELSE 2 * Pow2(n - 1)

----------------------------------------------------------------------------
(* Signer, lines 79-108 *)

\* SHA256(data).toString(): the hex digest.  The hash is treated as
\* collision-free: the digest is an injective image of the data.
generateSHA256Hash(data) == "sha256<" \o data \o ">"

createRequestHash(payload, endpoint) ==
    LET data == payload \o endpoint \o PHONEPE_SALT_KEY
    IN  generateSHA256Hash(data) \o "###" \o PHONEPE_SALT_INDEX

----------------------------------------------------------------------------
(* Payload builder, lines 84-102 and 128-130 *)

createPaymentPayload(options) ==
    [merchantId            |-> PHONEPE_MERCHANT_ID,
     merchantTransactionId |-> options.merchantTransactionId,
     merchantUserId        |-> options.merchantUserId,
     amount                |-> options.amount,
     redirectUrl           |-> options.redirectUrl,
     redirectMode          |-> "REDIRECT",
     callbackUrl           |-> options.callbackUrl,
     paymentInstrument     |-> [type |-> "PAY_PAGE"]]

\* JSON.stringify of the payload object: the fields in insertion order
JSONstringify(payload) ==
    "{merchantId:" \o payload.merchantId
      \o ",merchantTransactionId:" \o payload.merchantTransactionId
      \o ",merchantUserId:" \o payload.merchantUserId
      \o ",amount:" \o ToString(payload.amount)
      \o ",redirectUrl:" \o payload.redirectUrl
      \o ",redirectMode:" \o payload.redirectMode
      \o ",callbackUrl:" \o payload.callbackUrl
      \o ",paymentInstrument:{type:" \o payload.paymentInstrument.type \o "}}"

\* btoa: an injective re-encoding of the string
btoa(s) == "b64<" \o s \o ">"

----------------------------------------------------------------------------
(* Inputs of the gateway client *)

Calls == {"A", "B"}

MerchantTransactionIds == {"TX1", "TX2"}

PaymentOptions ==
    [amount                : {10000},
     merchantTransactionId : MerchantTransactionIds,
     merchantUserId        : {"U1"},
     redirectUrl           : {"https://x/r"},
     callbackUrl           : {"https://x/cb"}]

RetriesArgs == (-1) .. MaxRetries

\* failure codes the provider answers with
ProviderFailureCodes ==
    {"BAD_REQUEST", "INVALID_MERCHANT", "DUPLICATE_TRANSACTION", "INTERNAL_SERVER_ERROR"}

RedirectData(mtid) ==
    [merchantId            |-> "M1",
     merchantTransactionId |-> mtid,
     instrumentResponse    |->
        [redirectInfo |-> [url |-> "https://pay/" \o mtid, method |-> "GET"],
         type         |-> "PAY_PAGE"]]

\* the JSON bodies the provider can answer POST /pg/v1/pay with
PayBodies(mtid) ==
    [success : {TRUE}, code : {"PAYMENT_INITIATED"}, message : {"", "Payment initiated"},
     data : {Undefined, RedirectData(mtid)}]
    \cup
    [success : {FALSE},
     code    : ProviderFailureCodes,
     message : {"", "Provider says no"},
     data    : {Undefined}]

StatusData(mtid, state) ==
    [merchantId            |-> "M1",
     merchantTransactionId |-> mtid,
     transactionId         |-> "P-" \o mtid,
     amount                |-> 10000,
     state                 |-> state,
     responseCode          |-> IF state = "COMPLETED" THEN "SUCCESS" ELSE state,
     paymentInstrument     |-> [type |-> "UPI"]]

\* the JSON bodies the provider can answer GET /pg/v1/status/... with
StatusBodies(mtid) ==
    { [success |-> TRUE, code |-> "PAYMENT_SUCCESS", message |-> "ok",
       data |-> StatusData(mtid, "COMPLETED")],
      [success |-> TRUE, code |-> "PAYMENT_PENDING", message |-> "",
       data |-> StatusData(mtid, "PENDING")],
      [success |-> FALSE, code |-> "PAYMENT_ERROR", message |-> "Payment failed",
       data |-> StatusData(mtid, "FAILED")],
      [success |-> FALSE, code |-> "INTERNAL_SERVER_ERROR", message |-> "",
       data |-> Undefined] }

\* what an attempt can throw into the catch block: fetch rejecting, the
\* `!response.ok` throw of lines 154-156 / 234-236, response.json() rejecting.
\* Every such Error has a non-empty message.
HttpError(status, statusText) ==
    [kind |-> "http", message |-> "HTTP " \o ToString(status) \o ": " \o statusText]

ThrownErrors ==
    { [kind |-> "network", message |-> "Failed to fetch"],
      HttpError(500, "Internal Server Error"),
      [kind |-> "json", message |-> "Unexpected end of JSON input"] }

----------------------------------------------------------------------------
(* Activation records of the gateway calls *)

\* a call slot nobody has invoked
NoCall ==
    [pc |-> "idle", op |-> "none", mtid |-> "", options |-> Undefined, retries |-> 0,
     attempt |-> 0, lastError |-> Undefined, log |-> <<>>, result |-> Undefined]

\* a call slot that is not used in this run
AbsentCall == [NoCall EXCEPT !.pc = "absent"]

FetchEvent(method, endpoint, xverify, body) ==
    [type |-> "fetch", method |-> method, endpoint |-> endpoint,
     xverify |-> xverify, merchantId |-> PHONEPE_MERCHANT_ID, body |-> body]

ThrowEvent(error) == [type |-> "throw", kind |-> error.kind, message |-> error.message]

JsonEvent(body) == [type |-> "json", body |-> body]

SleepEvent(ms) == [type |-> "sleep", ms |-> ms]

\* the list of line 175 with a code added to it
noRetryErrorsWide ==
    {"BAD_REQUEST", "INVALID_MERCHANT", "DUPLICATE_TRANSACTION", "INTERNAL_SERVER_ERROR"}

\* the list of line 175 with its last code forgotten
noRetryErrorsShort == {"BAD_REQUEST", "INVALID_MERCHANT"}

\* line 175
noRetryErrors == {"BAD_REQUEST", "INVALID_MERCHANT", "DUPLICATE_TRANSACTION"}

\* lines 116 and 209 with the secret key left unchecked
CredentialsMissingIdOnly == PHONEPE_MERCHANT_ID = ""

\* lines 116 and 209
CredentialsMissing == PHONEPE_MERCHANT_ID = "" \/ PHONEPE_SALT_KEY = ""

\* the loop condition off by one: `attempt < retries`
LoopCondStrict(attempt, retries) == attempt < retries

\* lines 126 and 216 with one more round of the loop
LoopCondOneMore(attempt, retries) == attempt <= retries + 1

\* loop conditions, lines 126 and 216
LoopCond(attempt, retries) == attempt <= retries

\* lines 191 and 252 with the final attempt waited for as well
ShouldWaitAfterFinal(attempt, retries) == attempt <= retries

\* lines 191 and 252
ShouldWait(attempt, retries) == attempt < retries

\* line 192, in milliseconds
InitiateBackoff(attempt) == Pow2(attempt) * 1000

\* line 253 with the exponential delay of line 192
StatusBackoffExponential(attempt) == Pow2(attempt) * 1000

\* line 253, in milliseconds
StatusBackoff(attempt) == 1000 * (attempt + 1)

\* lastError?.message || fallback
LastErrorMessage(lastError, fallback) ==
    IF lastError = Undefined THEN fallback ELSE OrElse(lastError.message, fallback)

\* `return value` out of the async function: the promise settles
Return(f, value) == [f EXCEPT !.pc = "done", !.result = value]

----------------------------------------------------------------------------
(* initiatePhonePePayment, lines 111-202 *)

\* lines 117-121
ConfigErrorResult ==
    [success |-> FALSE, code |-> "CONFIG_ERROR",
     message |-> "PhonePe credentials not configured. Please check your environment variables."]

\* lines 167-172 with the message defaulted as in line 180
SuccessResultDefaulted(body) ==
    [success |-> TRUE, code |-> body.code,
     message |-> OrElse(body.message, "Payment initiation failed"), data |-> body.data]

\* lines 167-172
SuccessResult(body) ==
    [success |-> TRUE, code |-> body.code, message |-> body.message, data |-> body.data]

\* lines 177-181
NoRetryResult(body) ==
    [success |-> FALSE, code |-> body.code,
     message |-> OrElse(body.message, "Payment initiation failed")]

\* line 184: new Error(result.message || 'Payment initiation failed')
ProviderError(body) == [message |-> OrElse(body.message, "Payment initiation failed")]

\* lines 197-201 with lastError ignored
InitiateExhaustedGeneric(lastError) ==
    [success |-> FALSE, code |-> "ERROR",
     message |-> "Payment initiation failed after multiple attempts"]

\* lines 197-201
InitiateExhausted(lastError) ==
    [success |-> FALSE, code |-> "ERROR",
     message |-> LastErrorMessage(lastError, "Payment initiation failed after multiple attempts")]

\* lines 128-152: the request of one attempt
InitiateFetch(options) ==
    LET payload       == createPaymentPayload(options)
        payloadString == JSONstringify(payload)
        base64Payload == btoa(payloadString)
        requestHash   == createRequestHash(base64Payload, "/pg/v1/pay")
    IN  FetchEvent("POST", "/pg/v1/pay", requestHash, [request |-> base64Payload])

\* line 126 with the attempt number signed into the checksum of lines 128-133
InitiateLoopSigningAttempt(f, a) ==
    IF LoopCond(a, f.retries)
    THEN [f EXCEPT !.attempt = a, !.pc = "fetch",
                   !.log = Append(@, [InitiateFetch(f.options) EXCEPT !.xverify =
                              createRequestHash(btoa(JSONstringify(createPaymentPayload(f.options))),
                                                "/pg/v1/pay" \o ToString(a))])]
    ELSE Return([f EXCEPT !.attempt = a], InitiateExhausted(f.lastError))

\* line 126: the loop head with `attempt` set to a; either the next attempt's
\* fetch is issued or the loop is left and lines 197-201 return
InitiateLoop(f, a) ==
    IF LoopCond(a, f.retries)
    THEN [f EXCEPT !.attempt = a, !.pc = "fetch",
                   !.log = Append(@, InitiateFetch(f.options))]
    ELSE Return([f EXCEPT !.attempt = a], InitiateExhausted(f.lastError))

\* the call, were it to answer a duplicate by itself: with another initiation of
\* the same transaction in flight it returns without a network call
InitiatePhonePePaymentDeduplicating(c) ==
    /\ call[c].pc = "idle"
    /\ \E options \in PaymentOptions, retries \in RetriesArgs \cap scenario.retries :
         LET f == [NoCall EXCEPT !.op = "initiate", !.options = options,
                                 !.mtid = options.merchantTransactionId,
                                 !.retries = retries]
             inFlight == \E d \in Calls \ {c} :
                            /\ call[d].op = "initiate"
                            /\ call[d].mtid = f.mtid
                            /\ call[d].pc \in {"fetch", "sleep"}
         IN  call' = [call EXCEPT ![c] =
                        IF CredentialsMissing
                        THEN Return(f, ConfigErrorResult)
                        ELSE IF inFlight
                        THEN Return(f, [success |-> FALSE,
                                        code |-> "DUPLICATE_TRANSACTION",
                                        message |-> "Payment initiation failed"])
                        ELSE InitiateLoop(f, 0)]
    /\ UNCHANGED <<config, scenario, signer, store>>

\* lines 111-126: the call, up to its first await
InitiatePhonePePayment(c) ==
    /\ call[c].pc = "idle"
    /\ \E options \in PaymentOptions, retries \in RetriesArgs \cap scenario.retries :
         LET f == [NoCall EXCEPT !.op = "initiate", !.options = options,
                                 !.mtid = options.merchantTransactionId,
                                 !.retries = retries]
         IN  call' = [call EXCEPT ![c] =
                        IF CredentialsMissing
                        THEN Return(f, ConfigErrorResult)
                        ELSE InitiateLoop(f, 0)]
    /\ UNCHANGED <<config, scenario, signer, store>>

\* lines 158-185: a 2xx response whose body parsed
InitiateResponse(c) ==
    /\ call[c].pc = "fetch"
    /\ call[c].op = "initiate"
    /\ \E body \in PayBodies(call[c].mtid) :
         LET f == [call[c] EXCEPT !.log = Append(@, JsonEvent(body))]
         IN  call' = [call EXCEPT ![c] =
                        IF body.success
                        THEN Return(f, SuccessResult(body))
                        ELSE IF body.code \in noRetryErrors
                        THEN Return(f, NoRetryResult(body))
                        ELSE InitiateLoop([f EXCEPT !.lastError = ProviderError(body)],
                                          f.attempt + 1)]
    /\ UNCHANGED <<config, scenario, signer, store>>

\* lines 186-194, were `attempt` a variable of the module that every call in
\* progress counts on
InitiateCatchSharedAttempt(c) ==
    /\ call[c].pc = "fetch"
    /\ call[c].op = "initiate"
    /\ \E error \in ThrownErrors \cap scenario.errors :
         LET f == [call[c] EXCEPT !.log = Append(@, ThrowEvent(error)),
                                  !.lastError = [message |-> error.message]]
         IN  call' = [d \in Calls |->
                        IF d # c
                        THEN [call[d] EXCEPT !.attempt = @ + 1]
                        ELSE IF ShouldWait(f.attempt, f.retries)
                        THEN [f EXCEPT !.pc = "sleep",
                                       !.log = Append(@, SleepEvent(InitiateBackoff(f.attempt)))]
                        ELSE InitiateLoop(f, f.attempt + 1)]
    /\ UNCHANGED <<config, scenario, signer, store>>

\* lines 186-194: the attempt threw
InitiateCatch(c) ==
    /\ call[c].pc = "fetch"
    /\ call[c].op = "initiate"
    /\ \E error \in ThrownErrors \cap scenario.errors :
         LET f == [call[c] EXCEPT !.log = Append(@, ThrowEvent(error)),
                                  !.lastError = [message |-> error.message]]
         IN  call' = [call EXCEPT ![c] =
                        IF ShouldWait(f.attempt, f.retries)
                        THEN [f EXCEPT !.pc = "sleep",
                                       !.log = Append(@, SleepEvent(InitiateBackoff(f.attempt)))]
                        ELSE InitiateLoop(f, f.attempt + 1)]
    /\ UNCHANGED <<config, scenario, signer, store>>

\* line 192: the backoff timer fires, the loop goes on
InitiateWake(c) ==
    /\ call[c].pc = "sleep"
    /\ call[c].op = "initiate"
    /\ call' = [call EXCEPT ![c] = InitiateLoop(call[c], call[c].attempt + 1)]
    /\ UNCHANGED <<config, scenario, signer, store>>

----------------------------------------------------------------------------
(* checkPaymentStatus, lines 205-260 *)

\* lines 218-232: the request of one attempt
StatusFetch(merchantTransactionId) ==
    LET endpoint    == "/pg/v1/status/" \o PHONEPE_MERCHANT_ID \o "/" \o merchantTransactionId
        requestHash == createRequestHash("", endpoint)
    IN  FetchEvent("GET", endpoint, requestHash, Undefined)

\* line 216, and lines 258-259 once the loop is left
StatusLoop(f, a) ==
    IF LoopCond(a, f.retries)
    THEN [f EXCEPT !.attempt = a, !.pc = "fetch",
                   !.log = Append(@, StatusFetch(f.mtid))]
    ELSE Return([f EXCEPT !.attempt = a], Null)

\* lines 205-216: the call, up to its first await
CheckPaymentStatus(c) ==
    /\ call[c].pc = "idle"
    /\ \E merchantTransactionId \in MerchantTransactionIds,
          retries \in RetriesArgs \cap scenario.retries :
         LET f == [NoCall EXCEPT !.op = "status", !.mtid = merchantTransactionId,
                                 !.retries = retries]
         IN  call' = [call EXCEPT ![c] =
                        IF CredentialsMissing
                        THEN Return(f, Null)
                        ELSE StatusLoop(f, 0)]
    /\ UNCHANGED <<config, scenario, signer, store>>

\* lines 238-246 with a provider-reported failure sent round the loop again,
\* the way lines 173-185 treat it
StatusResponseRetrying(c) ==
    /\ call[c].pc = "fetch"
    /\ call[c].op = "status"
    /\ \E body \in StatusBodies(call[c].mtid) :
         LET f == [call[c] EXCEPT !.log = Append(@, JsonEvent(body))]
         IN  call' = [call EXCEPT ![c] =
                        IF body.success
                        THEN Return(f, body)
                        ELSE StatusLoop([f EXCEPT !.lastError = [message |-> body.message]],
                                        f.attempt + 1)]
    /\ UNCHANGED <<config, scenario, signer, store>>

\* lines 238-246 with a provider-reported failure answered by null
StatusResponseHidingFailure(c) ==
    /\ call[c].pc = "fetch"
    /\ call[c].op = "status"
    /\ \E body \in StatusBodies(call[c].mtid) :
         call' = [call EXCEPT ![c] =
                    Return([call[c] EXCEPT !.log = Append(@, JsonEvent(body))],
                           IF body.success THEN body ELSE Null)]
    /\ UNCHANGED <<config, scenario, signer, store>>

\* lines 238-246: a 2xx response whose body parsed is returned as it is
StatusResponse(c) ==
    /\ call[c].pc = "fetch"
    /\ call[c].op = "status"
    /\ \E body \in StatusBodies(call[c].mtid) :
         call' = [call EXCEPT ![c] =
                    Return([call[c] EXCEPT !.log = Append(@, JsonEvent(body))], body)]
    /\ UNCHANGED <<config, scenario, signer, store>>

\* lines 247-255: the attempt threw
StatusCatch(c) ==
    /\ call[c].pc = "fetch"
    /\ call[c].op = "status"
    /\ \E error \in ThrownErrors \cap scenario.errors :
         LET f == [call[c] EXCEPT !.log = Append(@, ThrowEvent(error)),
                                  !.lastError = [message |-> error.message]]
         IN  call' = [call EXCEPT ![c] =
                        IF ShouldWait(f.attempt, f.retries)
                        THEN [f EXCEPT !.pc = "sleep",
                                       !.log = Append(@, SleepEvent(StatusBackoff(f.attempt)))]
                        ELSE StatusLoop(f, f.attempt + 1)]
    /\ UNCHANGED <<config, scenario, signer, store>>

\* line 253: the backoff timer fires, the loop goes on
StatusWake(c) ==
    /\ call[c].pc = "sleep"
    /\ call[c].op = "status"
    /\ call' = [call EXCEPT ![c] = StatusLoop(call[c], call[c].attempt + 1)]
    /\ UNCHANGED <<config, scenario, signer, store>>

----------------------------------------------------------------------------
(* The gateway client: one call *)

\* lines 10-12: each credential is the environment's value or ''
ConfigInit ==
    /\ PHONEPE_MERCHANT_ID \in {"", "M1"}
    /\ PHONEPE_SALT_KEY \in {"", "k1"}
    /\ PHONEPE_SALT_INDEX \in {"1", "2"}

SignerIdle ==
    [pc |-> "idle", payload |-> "", endpoint |-> "", checksum |-> "",
     body |-> "", received |-> "", verified |-> FALSE, raised |-> FALSE,
     body2 |-> "", received2 |-> "", verified2 |-> FALSE]

StoreEmpty == [rows |-> [m \in MerchantTransactionIds |-> Null], ret |-> Undefined]

\* every retries argument and every way of failing
AnyScenario == [retries |-> RetriesArgs, errors |-> ThrownErrors]

Init ==
    /\ ConfigInit
    /\ scenario = AnyScenario
    /\ call = [c \in Calls |-> IF c = "A" THEN NoCall ELSE AbsentCall]
    /\ signer = SignerIdle
    /\ store = StoreEmpty

Next ==
    \E c \in Calls :
        \/ InitiatePhonePePayment(c)
        \/ InitiateResponse(c)
        \/ InitiateCatch(c)
        \/ InitiateWake(c)
        \/ CheckPaymentStatus(c)
        \/ StatusResponse(c)
        \/ StatusCatch(c)
        \/ StatusWake(c)

Spec == Init /\ [][Next]_vars

----------------------------------------------------------------------------
(* The gateway client: two calls at once *)

\* few retries, and the network as the one way an attempt throws
ConcScenario ==
    [retries |-> 0 .. ConcMaxRetries,
     errors  |-> {e \in ThrownErrors : e.kind = "network"}]

ConcInit ==
    /\ ConfigInit
    /\ scenario = ConcScenario
    /\ call = [c \in Calls |-> NoCall]
    /\ signer = SignerIdle
    /\ store = StoreEmpty

ConcSpec == ConcInit /\ [][Next]_vars

----------------------------------------------------------------------------
(* The gateway client under a network and timers that answer *)

\* the fetch of call c settles: lines 142-161 and 222-241 go on, or throw
NetworkCallCompletes(c) ==
    InitiateResponse(c) \/ InitiateCatch(c) \/ StatusResponse(c) \/ StatusCatch(c)

\* the setTimeout of lines 192 and 253 fires
BackoffTimerFires(c) == InitiateWake(c) \/ StatusWake(c)

FairSpec ==
    /\ Init
    /\ [][Next]_vars
    /\ \A c \in Calls : WF_vars(NetworkCallCompletes(c)) /\ WF_vars(BackoffTimerFires(c))

----------------------------------------------------------------------------
(* Signer and webhook verifier, lines 104-108 and 394-406 *)

Alphabet == {"a", "b"}

\* the strings over Alphabet of at most n characters
RECURSIVE Strings(_)
Strings(n) ==
    IF n = 0 THEN {""}
    ELSE Strings(n - 1) \cup {s \o ch : s \in Strings(n - 1), ch \in Alphabet}

\* base64 payloads and webhook bodies
Payloads == Strings(MaxLen)

\* "" is what checkPaymentStatus signs as payload; the others are the
\* endpoints of lines 132 and 218
Endpoints == {"", "/pg/v1/pay", "/pg/v1/status/M1/TX1"}

\* lines 399-405 with the '###' + index suffix forgotten
verifyWebhookSignatureNoIndex(base64Response, receivedSignature) ==
    generateSHA256Hash(base64Response \o PHONEPE_SALT_KEY) = receivedSignature

\* lines 399-405 with the body left out of the hash
verifyWebhookSignatureNoBody(base64Response, receivedSignature) ==
    generateSHA256Hash(PHONEPE_SALT_KEY) \o "###" \o PHONEPE_SALT_INDEX = receivedSignature

\* lines 400-401, the try block when nothing throws
verifyWebhookSignature(base64Response, receivedSignature) ==
    LET expectedSignature ==
            generateSHA256Hash(base64Response \o PHONEPE_SALT_KEY)
                \o "###" \o PHONEPE_SALT_INDEX
    IN  expectedSignature = receivedSignature

\* an argument that is no string at run time and makes the hashing of line
\* 400 throw
MalformedInput == "<malformed>"

HashThrows(base64Response) == base64Response = MalformedInput

\* lines 399-401 without the catch of lines 402-405: the exception leaves
\* the function
verifyWebhookSignatureUncaught(base64Response, receivedSignature) ==
    IF HashThrows(base64Response)
    THEN [raised |-> TRUE, value |-> FALSE]
    ELSE [raised |-> FALSE,
          value  |-> verifyWebhookSignature(base64Response, receivedSignature)]

\* lines 395-406: the call with its try/catch; `raised` tells whether an
\* exception reached the caller, `value` is what was returned
verifyWebhookSignatureCall(base64Response, receivedSignature) ==
    IF HashThrows(base64Response)
    THEN [raised |-> FALSE, value |-> FALSE]
    ELSE [raised |-> FALSE,
          value  |-> verifyWebhookSignature(base64Response, receivedSignature)]

\* the checksum headers a webhook can arrive with: the hex digest of a body
\* under this or another secret, a well-formed or a damaged separator, this
\* or another key index
ReceivedSignatures ==
    { generateSHA256Hash(b \o k) \o sep \o idx :
        b \in Payloads, k \in {PHONEPE_SALT_KEY, "kX"}, sep \in {"###", "#"}, idx \in {"1", "2"} }

\* sign: createRequestHash on some payload and endpoint
Sign ==
    /\ signer.pc = "idle"
    /\ \E payload \in Payloads, endpoint \in Endpoints :
         signer' = [signer EXCEPT !.pc = "signed", !.payload = payload, !.endpoint = endpoint,
                                  !.checksum = createRequestHash(payload, endpoint)]
    /\ UNCHANGED <<config, scenario, call, store>>

\* verify(payload, sign(payload, endpoint))
VerifySigned ==
    /\ signer.pc = "signed"
    /\ signer' = [signer EXCEPT !.pc = "roundtrip", !.body = signer.payload,
                                !.received = signer.checksum,
                                !.verified = verifyWebhookSignatureCall(signer.payload,
                                                                        signer.checksum).value]
    /\ UNCHANGED <<config, scenario, call, store>>

\* a webhook arrives and is verified
VerifyWebhook ==
    /\ signer.pc = "idle"
    /\ \E body \in Payloads \cup {MalformedInput}, received \in ReceivedSignatures :
         LET r == verifyWebhookSignatureCall(body, received)
         IN  signer' = [signer EXCEPT !.pc = "verified", !.body = body,
                                      !.received = received,
                                      !.verified = r.value, !.raised = r.raised]
    /\ UNCHANGED <<config, scenario, call, store>>

\* the same webhook arrives again with its body or its checksum altered
VerifyAltered ==
    /\ signer.pc \in {"roundtrip", "verified"}
    /\ \E body2 \in Payloads, received2 \in ReceivedSignatures \cup {signer.received} :
         /\ \/ body2 # signer.body /\ received2 = signer.received
            \/ body2 = signer.body /\ received2 # signer.received
         /\ signer' = [signer EXCEPT !.pc = "reverified", !.body2 = body2,
                                     !.received2 = received2,
                                     !.verified2 =
                                        verifyWebhookSignatureCall(body2, received2).value]
    /\ UNCHANGED <<config, scenario, call, store>>

SignerInit ==
    /\ ConfigInit
    /\ scenario = AnyScenario
    /\ call = [c \in Calls |-> AbsentCall]
    /\ signer = SignerIdle
    /\ store = StoreEmpty

SignerNext == Sign \/ VerifySigned \/ VerifyWebhook \/ VerifyAltered

SignerSpec == SignerInit /\ [][SignerNext]_vars

----------------------------------------------------------------------------
(* Transaction store adapter, lines 262-328 and 352-392, and the store
   behind it *)

Statuses == {"INITIATED", "PENDING", "SUCCESS", "FAILED", "REFUNDED", "CANCELLED"}

OrderIds == {"O1"}

\* a store that writes whatever status it is given
AnyTransition == Statuses \X Statuses

\* the state machine the store keeps
LegalTransitions ==
    { <<"INITIATED", "PENDING">>, <<"PENDING", "SUCCESS">>, <<"PENDING", "FAILED">>,
      <<"SUCCESS", "REFUNDED">>, <<"INITIATED", "CANCELLED">>, <<"PENDING", "CANCELLED">> }

\* create_payment_transaction: a new row in status INITIATED; the merchant
\* transaction identifier is a unique key
StoreCreate(rows, args) ==
    IF rows[args.p_merchant_transaction_id] # Null
    THEN [rows |-> rows, data |-> Null, error |-> TRUE]
    ELSE [rows |-> [rows EXCEPT ![args.p_merchant_transaction_id] =
                      [order_id                |-> args.p_order_id,
                       merchant_transaction_id |-> args.p_merchant_transaction_id,
                       amount                  |-> args.p_amount,
                       status                  |-> "INITIATED",
                       phonepe_transaction_id  |-> "",
                       payment_method          |-> "",
                       response_code           |-> "",
                       response_message        |-> "",
                       phonepe_response        |-> Null,
                       created_at              |->
                           Cardinality({m \in DOMAIN rows : rows[m] # Null}) + 1,
                       history                 |-> <<"INITIATED">>]],
          data |-> [id |-> "id-" \o args.p_merchant_transaction_id],
          error |-> FALSE]

\* update_payment_transaction_status: the row moves to p_status when the
\* state machine allows it, and the function answers whether it did
StoreUpdate(rows, args) ==
    LET row == rows[args.p_merchant_transaction_id]
    IN  IF row # Null /\ <<row.status, args.p_status>> \in LegalTransitions
        THEN [rows |-> [rows EXCEPT ![args.p_merchant_transaction_id] =
                          [row EXCEPT !.status = args.p_status,
                                      !.phonepe_transaction_id = args.p_phonepe_transaction_id,
                                      !.payment_method = args.p_payment_method,
                                      !.response_code = args.p_response_code,
                                      !.response_message = args.p_response_message,
                                      !.phonepe_response = args.p_phonepe_response,
                                      !.history = Append(@, args.p_status)]],
              data |-> TRUE, error |-> FALSE]
        ELSE [rows |-> rows, data |-> FALSE, error |-> FALSE]

\* how an rpc can end: the store ran it, it answered {error}, or the call threw
RpcOutcomes == {"ok", "error", "throw"}

\* select('*').eq('merchant_transaction_id', id).single(): the row, or an
\* error when there is none
StoreSelectSingle(rows, merchantTransactionId) ==
    IF rows[merchantTransactionId] = Null
    THEN [rows |-> rows, data |-> Null, error |-> TRUE]
    ELSE [rows |-> rows, data |-> rows[merchantTransactionId], error |-> FALSE]

RECURSIVE NewestFirst(_, _)
NewestFirst(rows, ms) ==
    IF ms = {} THEN <<>>
    ELSE LET m == CHOOSE x \in ms : \A y \in ms : rows[y].created_at <= rows[x].created_at
         IN  <<rows[m]>> \o NewestFirst(rows, ms \ {m})

\* select('*').eq('order_id', orderId).order('created_at', {ascending: false})
StoreSelectByOrder(rows, orderId) ==
    [rows  |-> rows,
     data  |-> NewestFirst(rows, {m \in DOMAIN rows :
                                    rows[m] # Null /\ rows[m].order_id = orderId}),
     error |-> FALSE]

\* what the store call of an adapter function gives back: the store's
\* answer, or {error} and no change when it failed or threw
StoreAnswer(outcome, answer, failureData) ==
    IF outcome = "ok" THEN answer
    ELSE [rows |-> store.rows, data |-> failureData, error |-> TRUE]

\* the try/catch of an adapter function with the catch left out: a thrown
\* exception leaves the function
AdapterReturnUncaught(outcome, r, failureValue) ==
    IF outcome = "throw" THEN [raised |-> TRUE, value |-> failureValue]
    ELSE IF r.error THEN [raised |-> FALSE, value |-> failureValue]
    ELSE [raised |-> FALSE, value |-> r.data]

\* lines 269-287, 296-327, 354-370 and 375-391: `if (error) return
\* failureValue`, `return data`, and `catch { return failureValue }`
AdapterReturn(outcome, r, failureValue) ==
    IF outcome = "throw" THEN [raised |-> FALSE, value |-> failureValue]
    ELSE IF r.error THEN [raised |-> FALSE, value |-> failureValue]
    ELSE [raised |-> FALSE, value |-> r.data]

\* what a call of an adapter function leaves behind
AdapterCall(op, outcome, r, failureValue) ==
    LET ret == AdapterReturn(outcome, r, failureValue)
    IN  [op |-> op, failed |-> outcome = "throw" \/ r.error, thrown |-> outcome = "throw",
         raised |-> ret.raised, value |-> ret.value]

\* lines 263-288
CreatePaymentTransaction ==
    \E orderId \in OrderIds, merchantTransactionId \in MerchantTransactionIds,
       outcome \in RpcOutcomes :
        LET args == [p_order_id |-> orderId,
                     p_merchant_transaction_id |-> merchantTransactionId,
                     p_amount |-> 10000, p_metadata |-> Null]
            r    == StoreAnswer(outcome, StoreCreate(store.rows, args), Null)
        IN  /\ store' = [rows |-> r.rows, ret |-> AdapterCall("create", outcome, r, Null)]
            /\ UNCHANGED <<config, scenario, call, signer>>

\* the provider responses updatePaymentTransaction is called with
PhonePeResponses(mtid) == {Undefined} \cup StatusBodies(mtid)

\* phonePeResponse?.data, lines 297-299
DataOf(phonePeResponse) ==
    IF phonePeResponse = Undefined THEN Undefined ELSE phonePeResponse.data

\* lines 297-310: the arguments of the rpc; '' stands for null
UpdateArgs(merchantTransactionId, status, phonePeResponse) ==
    LET data                 == DataOf(phonePeResponse)
        paymentMethod        == IF data = Undefined THEN "" ELSE data.paymentInstrument.type
        phonepeTransactionId == IF data = Undefined THEN "" ELSE data.transactionId
        responseCode         == IF data = Undefined THEN "" ELSE data.responseCode
        responseMessage      == IF phonePeResponse = Undefined THEN ""
                                ELSE phonePeResponse.message
    IN  [p_merchant_transaction_id |-> merchantTransactionId,
         p_status                  |-> status,
         p_phonepe_transaction_id  |-> phonepeTransactionId,
         p_payment_method          |-> paymentMethod,
         p_response_code           |-> responseCode,
         p_response_message        |-> responseMessage,
         p_phonepe_response        |-> IF phonePeResponse = Undefined THEN Null
                                       ELSE phonePeResponse]

\* lines 291-328
UpdatePaymentTransaction ==
    \E merchantTransactionId \in MerchantTransactionIds, status \in Statuses,
       outcome \in RpcOutcomes :
      \E phonePeResponse \in PhonePeResponses(merchantTransactionId) :
        LET args == UpdateArgs(merchantTransactionId, status, phonePeResponse)
            r    == StoreAnswer(outcome, StoreUpdate(store.rows, args), FALSE)
        IN  /\ store' = [rows |-> r.rows, ret |-> AdapterCall("update", outcome, r, FALSE)]
            /\ UNCHANGED <<config, scenario, call, signer>>

\* lines 353-371
GetPaymentTransaction ==
    \E merchantTransactionId \in MerchantTransactionIds, outcome \in RpcOutcomes :
        LET r == StoreAnswer(outcome, StoreSelectSingle(store.rows, merchantTransactionId),
                             Null)
        IN  /\ store' = [rows |-> r.rows, ret |-> AdapterCall("get", outcome, r, Null)]
            /\ UNCHANGED <<config, scenario, call, signer>>

\* lines 374-392
GetOrderPaymentTransactions ==
    \E orderId \in OrderIds, outcome \in RpcOutcomes :
        LET r == StoreAnswer(outcome, StoreSelectByOrder(store.rows, orderId), <<>>)
        IN  /\ store' = [rows |-> r.rows, ret |-> AdapterCall("list", outcome, r, <<>>)]
            /\ UNCHANGED <<config, scenario, call, signer>>

\* the adapter reads none of the credentials
StoreInit ==
    /\ PHONEPE_MERCHANT_ID = "M1"
    /\ PHONEPE_SALT_KEY = "k1"
    /\ PHONEPE_SALT_INDEX = "1"
    /\ scenario = AnyScenario
    /\ call = [c \in Calls |-> AbsentCall]
    /\ signer = SignerIdle
    /\ store = StoreEmpty

StoreNext ==
    \/ CreatePaymentTransaction
    \/ UpdatePaymentTransaction
    \/ GetPaymentTransaction
    \/ GetOrderPaymentTransactions

StoreSpec == StoreInit /\ [][StoreNext]_vars

----------------------------------------------------------------------------
(* What a call's log says *)

IsFetch(e) == e.type = "fetch"

IsSleep(e) == e.type = "sleep"

\* an attempt's outcome: it threw, or a 2xx body was parsed
IsOutcome(e) == e.type \in {"throw", "json"}

IsTransportFailure(e) == e.type = "throw"

IsProviderFailure(e) == e.type = "json" /\ ~e.body.success

IsProviderSuccess(e) == e.type = "json" /\ e.body.success

NetworkCalls(f) == Len(SelectSeq(f.log, IsFetch))

Outcomes(f) == SelectSeq(f.log, IsOutcome)

\* the network calls and the delays in the order they happened: 0 for a
\* network call, the milliseconds for a delay
Timeline(f) ==
    LET nd == SelectSeq(f.log, LAMBDA e : IsFetch(e) \/ IsSleep(e))
    IN  [i \in 1 .. Len(nd) |-> IF IsSleep(nd[i]) THEN nd[i].ms ELSE 0]

\* the permanent-failure set of the specification
PermanentFailureSet == {"BAD_REQUEST", "INVALID_MERCHANT", "DUPLICATE_TRANSACTION"}

IsPermanentFailure(e) == IsProviderFailure(e) /\ e.body.code \in PermanentFailureSet

IsTransientProviderFailure(e) == IsProviderFailure(e) /\ e.body.code \notin PermanentFailureSet

InitiateCalls == {c \in Calls : call[c].op = "initiate"}

StatusCalls == {c \in Calls : call[c].op = "status"}

----------------------------------------------------------------------------
(* Claims *)

\* C1: in initiatePayment, an attempt that receives a provider-reported
\* failure with a code of the permanent-failure set is the call's last event:
\* the call has returned success=false with that code and no network call
\* follows; when the first response is such a failure exactly one network
\* call was made, whatever maxRetries is.
C1_PermanentFailureReturnsAtOnce ==
    \A c \in InitiateCalls :
        LET f == call[c]
        IN  \A i \in 1 .. Len(f.log) :
                IsPermanentFailure(f.log[i]) =>
                    /\ i = Len(f.log)
                    /\ f.pc = "done"
                    /\ f.result.success = FALSE
                    /\ f.result.code = f.log[i].body.code
                    /\ (Len(Outcomes(f)) = 1 => NetworkCalls(f) = 1)

\* C1 witness: a call with maxRetries >= 2 whose first response was
\* DUPLICATE_TRANSACTION has returned.
C1_Witness ==
    \E c \in InitiateCalls :
        /\ call[c].pc = "done"
        /\ call[c].retries >= 2
        /\ Len(call[c].log) = 2
        /\ IsPermanentFailure(call[c].log[2])
        /\ call[c].log[2].body.code = "DUPLICATE_TRANSACTION"

AllOutcomes(f, P(_)) == \A i \in 1 .. Len(Outcomes(f)) : P(Outcomes(f)[i])

\* C2 (as claimed): when every attempt of initiatePayment(intent, 2) ends
\* with a provider-reported failure outside the permanent-failure set, 3
\* network calls are made with a delay of 1s between the first and the second
\* and 2s between the second and the third.
C2_BackoffBetweenProviderFailures ==
    \A c \in InitiateCalls :
        LET f == call[c]
        IN  ( /\ f.pc = "done"
              /\ f.retries = 2
              /\ Len(Outcomes(f)) > 0
              /\ AllOutcomes(f, IsTransientProviderFailure) )
            => Timeline(f) = <<0, 1000, 0, 2000, 0>>

\* C3 (as claimed): checkStatus does not return after a failed attempt,
\* transport-level or provider-reported, while fewer than maxRetries retries
\* have been used.
C3_StatusRetriesAnyFailure ==
    \A c \in StatusCalls :
        LET f == call[c]
        IN  ( /\ f.pc = "done"
              /\ Len(f.log) > 0
              /\ (IsTransportFailure(f.log[Len(f.log)]) \/ IsProviderFailure(f.log[Len(f.log)])) )
            => NetworkCalls(f) - 1 >= f.retries

\* C3 (amended): checkStatus retries on a transport-level failure only.  A
\* thrown attempt with fewer than maxRetries retries used is followed by a
\* backoff delay and then by another network call, never by a return; a 2xx
\* response, success=false included, is the last event of the call and its
\* body is the result.
C3_StatusRetriesTransportFailureOnly ==
    \A c \in StatusCalls :
        LET f == call[c]
            n == Len(f.log)
        IN  \A i \in 1 .. n :
                /\ ( /\ IsTransportFailure(f.log[i])
                     /\ Len(SelectSeq(SubSeq(f.log, 1, i), IsFetch)) - 1 < f.retries )
                   => /\ i < n
                      /\ IsSleep(f.log[i + 1])
                      /\ IF i + 1 = n THEN f.pc = "sleep" ELSE IsFetch(f.log[i + 2])
                /\ f.log[i].type = "json"
                   => /\ i = n
                      /\ f.pc = "done"
                      /\ f.result = f.log[i].body

\* C3 witness: a status call has retried after a transport failure and has
\* then returned a provider-reported failure with retries left.
C3_Witness ==
    \E c \in StatusCalls :
        LET f == call[c]
        IN  /\ f.pc = "done"
            /\ NetworkCalls(f) = 2
            /\ f.retries = 3
            /\ IsTransportFailure(Outcomes(f)[1])
            /\ IsProviderFailure(Outcomes(f)[2])

\* C4: when every attempt of checkStatus(id, 3) fails at transport level, 4
\* network calls are made with delays of 1s, 2s and 3s between them, no delay
\* follows the last call, and the result is null.
C4_StatusExhaustion ==
    \A c \in StatusCalls :
        LET f == call[c]
        IN  ( /\ f.pc = "done"
              /\ f.retries = 3
              /\ Len(Outcomes(f)) > 0
              /\ AllOutcomes(f, IsTransportFailure) )
            => /\ Timeline(f) = <<0, 1000, 0, 2000, 0, 3000, 0>>
               /\ IsTransportFailure(f.log[Len(f.log)])
               /\ f.result = Null

\* C4 witness: a checkStatus(id, 3) call has returned after four attempts
\* that failed in different transport-level ways.
C4_Witness ==
    \E c \in StatusCalls :
        LET f == call[c]
        IN  /\ f.pc = "done"
            /\ f.retries = 3
            /\ Len(Outcomes(f)) = 4
            /\ AllOutcomes(f, IsTransportFailure)
            /\ Outcomes(f)[1].kind = "network"
            /\ Outcomes(f)[4].kind = "http"

\* the spec's precondition of C5, stated on the configuration
MerchantIdOrSecretMissing == PHONEPE_MERCHANT_ID = "" \/ PHONEPE_SALT_KEY = ""

\* C5: with the merchant identifier or the secret key missing, a call makes
\* no network call and no delay; initiatePayment returns success=false with
\* code CONFIG_ERROR and checkStatus returns null, whatever maxRetries is.
C5_MissingCredentials ==
    MerchantIdOrSecretMissing =>
        \A c \in InitiateCalls \cup StatusCalls :
            LET f == call[c]
            IN  /\ f.log = <<>>
                /\ f.pc = "done"
                /\ f.op = "initiate" => (f.result.success = FALSE /\ f.result.code = "CONFIG_ERROR")
                /\ f.op = "status" => f.result = Null

\* C5 witness: with only the secret key missing, an initiatePayment call with
\* maxRetries = 3 has returned.
C5_Witness ==
    /\ PHONEPE_MERCHANT_ID # ""
    /\ PHONEPE_SALT_KEY = ""
    /\ \E c \in InitiateCalls : call[c].pc = "done" /\ call[c].retries = 3

\* C8: an attempt of initiatePayment that receives success=true is the call's
\* last event: the call has returned success=true with the provider's code,
\* message and data as they came, and no network call follows.
C8_SuccessReturnedUnmodified ==
    \A c \in InitiateCalls :
        LET f == call[c]
        IN  \A i \in 1 .. Len(f.log) :
                IsProviderSuccess(f.log[i]) =>
                    /\ i = Len(f.log)
                    /\ f.pc = "done"
                    /\ f.result = [success |-> TRUE,
                                   code    |-> f.log[i].body.code,
                                   message |-> f.log[i].body.message,
                                   data    |-> f.log[i].body.data]

\* C8 witness: after a transport failure and a transient provider failure the
\* third attempt succeeded and the redirect URL is in the result.
C8_Witness ==
    \E c \in InitiateCalls :
        LET f == call[c]
        IN  /\ f.pc = "done"
            /\ Len(Outcomes(f)) = 3
            /\ IsTransportFailure(Outcomes(f)[1])
            /\ IsTransientProviderFailure(Outcomes(f)[2])
            /\ IsProviderSuccess(Outcomes(f)[3])
            /\ f.result.data = RedirectData(f.mtid)
            /\ f.result.data.instrumentResponse.redirectInfo.url = "https://pay/" \o f.mtid

\* the error message of a failed attempt: the thrown Error's message, or the
\* provider's message (the Error of line 184 says 'Payment initiation failed'
\* when the provider sent none)
AttemptErrorMessage(e) ==
    IF IsTransportFailure(e) THEN e.message
    ELSE IF e.body.message = "" THEN "Payment initiation failed" ELSE e.body.message

IsTransientFailure(e) == IsTransportFailure(e) \/ IsTransientProviderFailure(e)

\* C9: when all maxRetries+1 attempts of initiatePayment failed without a
\* permanent-failure code, the result is success=false with code ERROR and the
\* error message of the last failed attempt, whichever way each attempt failed.
C9_ExhaustionCarriesLastError ==
    \A c \in InitiateCalls :
        LET f == call[c]
            o == Outcomes(f)
        IN  ( /\ f.pc = "done"
              /\ Len(o) > 0
              /\ Len(o) = f.retries + 1
              /\ AllOutcomes(f, IsTransientFailure) )
            => f.result = [success |-> FALSE, code |-> "ERROR",
                           message |-> AttemptErrorMessage(o[Len(o)])]

\* C9 witness: three attempts failed, the first two at transport level and
\* the last by a provider-reported failure carrying a message.
C9_Witness ==
    \E c \in InitiateCalls :
        LET f == call[c]
            o == Outcomes(f)
        IN  /\ f.pc = "done"
            /\ f.retries = 2
            /\ Len(o) = 3
            /\ IsTransportFailure(o[1])
            /\ IsTransportFailure(o[2])
            /\ IsTransientProviderFailure(o[3])
            /\ f.result.message = "Provider says no"

\* C6 (as claimed): verify(payload, sign(payload, endpoint)) succeeds for
\* every payload and every endpoint.
C6_RoundTripEveryEndpoint ==
    signer.pc = "roundtrip" => signer.verified

\* C6 (amended): verify(payload, sign(payload, endpoint)) succeeds exactly
\* when the endpoint is the empty string; the request checksum hashes
\* payload + endpoint + secret, the webhook checksum payload + secret.
C6_RoundTripEmptyEndpointOnly ==
    signer.pc = "roundtrip" => (signer.verified <=> signer.endpoint = "")

\* C6 witness: a non-empty payload signed for the empty endpoint under a
\* configured secret has been verified against its own checksum.
C6_Witness ==
    /\ signer.pc = "roundtrip"
    /\ signer.endpoint = ""
    /\ signer.payload = "ab"
    /\ PHONEPE_SALT_KEY # ""
    /\ signer.verified

\* C7: once verify(body, checksum) has succeeded, verify fails on the same
\* checksum with any other body and on the same body with any other checksum.
C7_TamperDetected ==
    (signer.pc = "reverified" /\ signer.verified) =>
        /\ (signer.body2 # signer.body /\ signer.received2 = signer.received)
             => ~signer.verified2
        /\ (signer.body2 = signer.body /\ signer.received2 # signer.received)
             => ~signer.verified2

\* C7 witness: a webhook that verified was verified again with another body
\* under the same checksum.
C7_Witness ==
    /\ signer.pc = "reverified"
    /\ signer.verified
    /\ signer.body2 # signer.body
    /\ signer.received2 = signer.received
    /\ ~signer.verified2

\* the transactions the store holds
Transactions == {m \in MerchantTransactionIds : store.rows[m] # Null}

\* C10: in the history of every transaction SUCCESS is never followed by
\* INITIATED, REFUNDED follows SUCCESS only, CANCELLED follows INITIATED or
\* PENDING only, and nothing follows FAILED or CANCELLED; the row's status is
\* the last status of its history.
C10_TransitionsFollowStateMachine ==
    \A m \in Transactions :
        LET h == store.rows[m].history
        IN  /\ store.rows[m].status = h[Len(h)]
            /\ \A i \in 1 .. Len(h) - 1 :
                 /\ h[i] = "SUCCESS" => h[i + 1] # "INITIATED"
                 /\ h[i + 1] = "REFUNDED" => h[i] = "SUCCESS"
                 /\ h[i + 1] = "CANCELLED" => h[i] \in {"INITIATED", "PENDING"}
                 /\ h[i] \notin {"FAILED", "CANCELLED"}

\* C10 witness: one transaction went from SUCCESS to REFUNDED, the other is
\* FAILED and the last updateStatus call on it was turned down.
C10_Witness ==
    /\ Transactions = MerchantTransactionIds
    /\ store.rows["TX1"].history = <<"INITIATED", "PENDING", "SUCCESS", "REFUNDED">>
    /\ store.rows["TX2"].status = "FAILED"
    /\ store.ret.op = "update"
    /\ store.ret.value = FALSE

\* the checksum the specification asks for:
\* SHA256(base64Body + secretKey) + "###" + keyIndex
ExpectedWebhookChecksum(body) ==
    "sha256<" \o body \o PHONEPE_SALT_KEY \o ">" \o "###" \o PHONEPE_SALT_INDEX

\* C11: verifyWebhookSignature returns true only when the received checksum
\* is exactly the expected one; on a mismatch and on an internal error it
\* returns false, and no exception reaches the caller.
C11_VerifyFailsClosed ==
    signer.pc = "verified" =>
        /\ ~signer.raised
        /\ signer.verified => signer.received = ExpectedWebhookChecksum(signer.body)
        /\ signer.received # ExpectedWebhookChecksum(signer.body) => ~signer.verified
        /\ HashThrows(signer.body) => ~signer.verified

\* C11 witness: a webhook whose body made the hashing throw was turned down
\* without an exception.
C11_Witness ==
    /\ signer.pc = "verified"
    /\ signer.body = MalformedInput
    /\ ~signer.verified
    /\ ~signer.raised

\* C12: a store failure, an error answer or a thrown exception, never leaves
\* the adapter: create returns null, updateStatus false,
\* getByMerchantTransactionId null, listByOrder the empty sequence, and no
\* exception reaches the caller.
C12_StoreFailureContained ==
    store.ret # Undefined =>
        /\ ~store.ret.raised
        /\ store.ret.failed =>
             /\ store.ret.op = "create" => store.ret.value = Null
             /\ store.ret.op = "update" => store.ret.value = FALSE
             /\ store.ret.op = "get" => store.ret.value = Null
             /\ store.ret.op = "list" => store.ret.value = <<>>

\* C12 witness: with a transaction stored, listByOrder met a throwing store
\* and returned the empty sequence.
C12_Witness ==
    /\ Transactions # {}
    /\ store.ret # Undefined
    /\ store.ret.op = "list"
    /\ store.ret.thrown
    /\ ~store.ret.raised
    /\ store.ret.value = <<>>

----------------------------------------------------------------------------
(* Two gateway calls at once *)

\* the last event of a call's log
LastEvent(f) == f.log[Len(f.log)]

\* the POST to /pg/v1/pay that carries the payment of call f
IsPayPostOf(f, e) ==
    /\ IsFetch(e)
    /\ e.method = "POST"
    /\ e.endpoint = "/pg/v1/pay"
    /\ e.body = [request |-> btoa(JSONstringify(createPaymentPayload(f.options)))]

\* C13: concurrent initiatePayment calls for the same merchant transaction
\* identifier are not deduplicated by the client. Each of the two calls sends
\* its own POST to /pg/v1/pay whatever the other call is doing; a call leaves
\* its loop before its attempts are used up only on an answer of the provider
\* to one of its own attempts (a success or a permanent failure), and it
\* returns DUPLICATE_TRANSACTION exactly when the provider answered its last
\* attempt with that code.
C13_NoClientDeduplication ==
    \A c \in InitiateCalls : \A d \in InitiateCalls \ {c} :
        (call[c].mtid = call[d].mtid /\ ~MerchantIdOrSecretMissing) =>
            LET f == call[c] IN
            /\ NetworkCalls(f) >= 1
            /\ IsPayPostOf(f, f.log[1])
            /\ f.pc = "done" =>
                  /\ IsOutcome(LastEvent(f))
                  /\ \/ IsProviderSuccess(LastEvent(f))
                     \/ IsPermanentFailure(LastEvent(f))
                     \/ NetworkCalls(f) = f.retries + 1
                  /\ (~f.result.success /\ f.result.code = "DUPLICATE_TRANSACTION")
                        <=> /\ IsProviderFailure(LastEvent(f))
                            /\ LastEvent(f).body.code = "DUPLICATE_TRANSACTION"

\* two POSTs to /pg/v1/pay with the same merchantTransactionId are out and
\* neither call has returned
C13_Witness ==
    /\ InitiateCalls = Calls
    /\ call["A"].mtid = call["B"].mtid
    /\ \A c \in Calls :
          /\ call[c].pc = "fetch"
          /\ call[c].result = Undefined
          /\ IsPayPostOf(call[c], LastEvent(call[c]))
    /\ LastEvent(call["A"]).body = LastEvent(call["B"]).body

\* a call of its kind, with its arguments, as it stands after lines 111-126 or
\* lines 205-216
Started(f) ==
    LET g == [NoCall EXCEPT !.op = f.op, !.mtid = f.mtid, !.options = f.options,
                            !.retries = f.retries]
    IN  IF f.op = "initiate"
        THEN IF MerchantIdOrSecretMissing THEN Return(g, ConfigErrorResult)
             ELSE InitiateLoop(g, 0)
        ELSE IF MerchantIdOrSecretMissing THEN Return(g, Null)
             ELSE StatusLoop(g, 0)

\* the loop of the call goes on to its next round
Continue(f) ==
    IF f.op = "initiate" THEN InitiateLoop(f, f.attempt + 1) ELSE StatusLoop(f, f.attempt + 1)

\* a call whose delay, if it is in one, is over
Woken(f) == IF f.pc = "sleep" THEN Continue(f) ELSE f

\* a call awaiting its response, after the attempt ended with outcome o
AfterOutcome(f, o) ==
    LET g == [f EXCEPT !.log = Append(@, o)]
        h == [g EXCEPT !.lastError = [message |-> AttemptErrorMessage(o)]]
        delay == IF f.op = "initiate" THEN Pow2(f.attempt) * 1000
                 ELSE 1000 * (f.attempt + 1)
    IN  IF IsTransportFailure(o)
        THEN IF f.attempt < f.retries
             THEN [h EXCEPT !.pc = "sleep", !.log = Append(@, SleepEvent(delay))]
             ELSE Continue(h)
        ELSE IF f.op = "status" THEN Return(g, o.body)
        ELSE IF IsProviderSuccess(o) THEN Return(g, SuccessResult(o.body))
        ELSE IF IsPermanentFailure(o) THEN Return(g, NoRetryResult(o.body))
        ELSE Continue(h)

\* the call f as it stands when it runs alone and its attempts end with the
\* outcomes os[i], os[i+1], ...
RECURSIVE Replay(_, _, _)
Replay(f, os, i) ==
    IF i > Len(os) THEN f ELSE Replay(AfterOutcome(Woken(f), os[i]), os, i + 1)

\* what a caller or the network can see of a call
Observable(f) == [pc |-> f.pc, log |-> f.log, result |-> f.result]

\* the call is where its own arguments and the outcomes of its own attempts
\* put it, its last delay over or not
DeterminedByOwnOutcomes(f) ==
    LET alone == Replay(Started(f), Outcomes(f), 1)
    IN  Observable(f) \in {Observable(alone), Observable(Woken(alone))}

ActiveCalls == InitiateCalls \cup StatusCalls

\* C14: concurrent gateway calls for different merchant transaction
\* identifiers are independent. Under every interleaving, the network calls,
\* the delays and the result of each call are those of the call running alone
\* with the outcomes of its own attempts; and no step writes the credentials.
C14_CallsIndependent ==
    /\ [](\A c \in ActiveCalls : \A d \in ActiveCalls \ {c} :
            call[c].mtid # call[d].mtid => DeterminedByOwnOutcomes(call[c]))
    /\ [][config' = config]_vars

\* an initiation that was delayed and went on, next to a status query for
\* another transaction that is in its delay
C14_Witness ==
    /\ call["A"].op = "initiate"
    /\ call["B"].op = "status"
    /\ call["A"].mtid # call["B"].mtid
    /\ call["A"].pc = "done"
    /\ NetworkCalls(call["A"]) = 2
    /\ Len(SelectSeq(call["A"].log, IsSleep)) = 1
    /\ call["B"].pc = "sleep"
    /\ NetworkCalls(call["B"]) = 1

----------------------------------------------------------------------------
(* The requests of one call *)

\* the network calls of a call, in order
Requests(f) == SelectSeq(f.log, IsFetch)

\* the string that a request puts under its checksum: the encoded payload
\* it carries, or nothing for a GET
SignedPayload(e) == IF e.body = Undefined THEN "" ELSE e.body.request

\* the request names the transaction of the call: in the payload of a POST,
\* at the end of the path of a GET
CarriesTransactionId(f, e) ==
    IF f.op = "initiate"
    THEN e.body.request = btoa(JSONstringify(createPaymentPayload(f.options)))
    ELSE e.endpoint = "/pg/v1/status/" \o PHONEPE_MERCHANT_ID \o "/" \o f.mtid

\* C15: sign is deterministic, so every attempt inside one initiatePayment or
\* checkStatus call sends the X-VERIFY checksum of the first attempt, which is
\* the checksum of what the request carries, and the merchantTransactionId of
\* the first attempt, which is the one the call was made for.
C15_EveryAttemptSendsSameChecksum ==
    \A c \in ActiveCalls :
        LET f == call[c] IN
        \A i \in 1 .. Len(Requests(f)) :
            /\ Requests(f)[i].xverify = Requests(f)[1].xverify
            /\ Requests(f)[i].xverify =
                  createRequestHash(SignedPayload(Requests(f)[i]), Requests(f)[i].endpoint)
            /\ Requests(f)[i].endpoint = Requests(f)[1].endpoint
            /\ Requests(f)[i].body = Requests(f)[1].body
            /\ CarriesTransactionId(f, Requests(f)[i])

\* an initiation that returned after three network calls or more
C15_Witness ==
    \E c \in InitiateCalls : NetworkCalls(call[c]) >= 3 /\ call[c].pc = "done"

----------------------------------------------------------------------------
(* Delays and termination *)

\* the number, counted from 0, of the attempt that log entry i belongs to
AttemptOf(f, i) == Len(SelectSeq(SubSeq(f.log, 1, i), IsFetch)) - 1

\* C16: in initiatePayment, when attempt k (counted from 0) fails at
\* transport level and k < maxRetries, a delay of 2^k seconds comes next and
\* the next network call only after it; when the final attempt
\* (k = maxRetries) fails so, the call returns with no delay.
C16_InitiateBackoffAfterTransportFailure ==
    \A c \in InitiateCalls :
        LET f == call[c] IN
        \A i \in 1 .. Len(f.log) :
            IsTransportFailure(f.log[i]) =>
                IF AttemptOf(f, i) < f.retries
                THEN /\ i < Len(f.log)
                     /\ f.log[i + 1] = SleepEvent(Pow2(AttemptOf(f, i)) * 1000)
                     /\ IF i + 1 = Len(f.log) THEN f.pc = "sleep"
                        ELSE IsFetch(f.log[i + 2])
                ELSE /\ AttemptOf(f, i) = f.retries
                     /\ i = Len(f.log)
                     /\ f.pc = "done"

\* every attempt of initiatePayment(intent, 2) failed at transport level: the
\* calls were 1s and 2s apart, and the call returned after the third
C16_Witness ==
    \E c \in InitiateCalls :
        /\ call[c].retries = 2
        /\ call[c].pc = "done"
        /\ AllOutcomes(call[c], IsTransportFailure)
        /\ Timeline(call[c]) = <<0, 1000, 0, 2000, 0>>
        /\ IsTransportFailure(LastEvent(call[c]))

Delays(f) == Len(SelectSeq(f.log, IsSleep))

\* C17: every initiatePayment and checkStatus call terminates. With each
\* network call and each backoff timer completing in the end, a call that was
\* made returns a result in the end; it makes at most maxRetries+1 network
\* calls and at most maxRetries delays on the way, and no network call at all
\* when maxRetries is negative.
C17_EveryCallTerminates ==
    /\ \A c \in Calls : (call[c].op # "none") ~> (call[c].pc = "done")
    /\ [](\A c \in ActiveCalls :
            /\ call[c].pc = "done" => call[c].result # Undefined
            /\ IF call[c].retries < 0
               THEN NetworkCalls(call[c]) = 0 /\ Delays(call[c]) = 0
               ELSE /\ NetworkCalls(call[c]) <= call[c].retries + 1
                    /\ Delays(call[c]) <= call[c].retries)

\* a call that returned after maxRetries+1 network calls and maxRetries delays
C17_Witness ==
    \E c \in ActiveCalls :
        /\ call[c].pc = "done"
        /\ call[c].retries >= 2
        /\ NetworkCalls(call[c]) = call[c].retries + 1
        /\ Delays(call[c]) = call[c].retries

----------------------------------------------------------------------------
(* Verification without a secret key *)

\* C18 (as claimed): with the secret key not configured (empty),
\* verifyWebhookSignature returns false for every body and every received
\* checksum.
C18_EmptyKeyFailsClosed ==
    (PHONEPE_SALT_KEY = "" /\ signer.pc = "verified") => ~signer.verified

----------------------------------------------------------------------------
(* What checkStatus and initiatePayment hand back *)

\* the attempt got a 2xx response: its body parsed, or response.json() rejected
Received2xx(e) == e.type = "json" \/ (e.type = "throw" /\ e.kind = "json")

\* the attempt got no response, or a non-2xx one
FailedWithout2xx(e) == e.type = "throw" /\ e.kind \in {"network", "http"}

\* the number of rounds of a loop that runs for attempt = 0 .. retries
Attempts(retries) == IF retries < 0 THEN 0 ELSE retries + 1

\* C19 (as claimed): checkStatus returns null only when credentials are
\* missing or when all maxRetries+1 attempts failed at transport level; when
\* some attempt receives a 2xx response the call returns the body of that
\* response, so null is never returned after a 2xx response was received.
C19_AbsentOnlyWithoutResponse ==
    \A c \in StatusCalls :
        LET f == call[c] IN
        f.pc = "done" =>
            /\ f.result = Null =>
                  \/ MerchantIdOrSecretMissing
                  \/ /\ Len(Outcomes(f)) = Attempts(f.retries)
                     /\ AllOutcomes(f, FailedWithout2xx)
            /\ (\E i \in 1 .. Len(f.log) : Received2xx(f.log[i])) => f.result # Null

\* C19 (amended): checkStatus returns null only when credentials are missing
\* or when every one of its maxRetries+1 attempts threw: no response, a
\* non-2xx response, or a 2xx response whose body could not be read. When an
\* attempt receives a 2xx response whose body parses, the call returns that
\* body unmodified at once, so null is never returned after a body was read.
C19_AbsentOnlyWithoutReadableResponse ==
    \A c \in StatusCalls :
        LET f == call[c] IN
        /\ f.pc = "done" =>
              /\ f.result = Null =>
                    \/ MerchantIdOrSecretMissing
                    \/ /\ Len(Outcomes(f)) = Attempts(f.retries)
                       /\ AllOutcomes(f, IsTransportFailure)
              /\ f.result # Null => f.result = LastEvent(f).body
        /\ \A i \in 1 .. Len(f.log) :
              f.log[i].type = "json" =>
                  /\ i = Len(f.log)
                  /\ f.pc = "done"
                  /\ f.result = f.log[i].body
                  /\ f.result # Null

\* a status query whose first response could not be read and whose second
\* said FAILED: that body is the result
C19_Witness ==
    \E c \in StatusCalls :
        /\ call[c].pc = "done"
        /\ NetworkCalls(call[c]) = 2
        /\ Received2xx(Outcomes(call[c])[1])
        /\ IsTransportFailure(Outcomes(call[c])[1])
        /\ call[c].result # Null
        /\ ~call[c].result.success
        /\ call[c].result.data # Undefined
        /\ call[c].result = LastEvent(call[c]).body

\* the codes of a failed initiation, as the specification lists them
FailureCodes ==
    {"CONFIG_ERROR", "ERROR", "BAD_REQUEST", "INVALID_MERCHANT", "DUPLICATE_TRANSACTION"}

\* C20: every result of initiatePayment with success=false has a code in
\* {CONFIG_ERROR, ERROR, BAD_REQUEST, INVALID_MERCHANT, DUPLICATE_TRANSACTION}.
\* A provider failure code outside the permanent-failure set never reaches
\* the caller: the call goes on, and returns ERROR once its attempts are used
\* up.
C20_FailureCodesAreTyped ==
    \A c \in InitiateCalls :
        LET f == call[c] IN
        /\ (f.pc = "done" /\ ~f.result.success) => f.result.code \in FailureCodes
        /\ \A i \in 1 .. Len(f.log) :
              IsTransientProviderFailure(f.log[i]) =>
                  /\ f.pc = "done" =>
                        /\ f.result.code # f.log[i].body.code
                        /\ i = Len(f.log) =>
                              /\ f.result.code = "ERROR"
                              /\ ~f.result.success
                              /\ NetworkCalls(f) = Attempts(f.retries)
                  /\ i < Len(f.log) => IsFetch(f.log[i + 1])

\* the provider answered the last attempt with a code outside the
\* permanent-failure set, and the caller got ERROR
C20_Witness ==
    \E c \in InitiateCalls :
        /\ call[c].pc = "done"
        /\ call[c].retries >= 1
        /\ NetworkCalls(call[c]) = call[c].retries + 1
        /\ IsTransientProviderFailure(LastEvent(call[c]))
        /\ LastEvent(call[c]).body.code = "INTERNAL_SERVER_ERROR"
        /\ call[c].result.code = "ERROR"

====
